---- MODULE Spec2Model ----
(***************************************************************************)
(* A model of the cycle-level RISC simulator: the register file            *)
(* (registers.py), the instruction codec (isa.py), the cache and memory    *)
(* hierarchy (memory.py), the five-stage pipeline (pipeline.py) and the    *)
(* two-pass assembler (assembler.py).                                      *)
(*                                                                         *)
(* Python integers are unbounded and the machine's words are 32 bits wide, *)
(* while TLC's integers stop at 2^31 - 1.  A Python integer n is therefore *)
(* held as the pair <<h, l>> with n = h * 65536 + l and 0 <= l < 65536     *)
(* (h carries the sign).  The operators below compute on such pairs what   *)
(* Python computes on its integers; TLC reports an overflow, and never     *)
(* wraps, should |n| reach 2^47.                                           *)
(***************************************************************************)
EXTENDS Integers, Sequences, FiniteSets, TLC

VARIABLES registers, memory, pipeline, phase, program, regs0, nsteps, call,
          prev, ret, nops, raised, scan,
          app

vars == <<registers, memory, pipeline, phase, program, regs0, nsteps, call,
          prev, ret, nops, raised, scan,
          app>>

-----------------------------------------------------------------------------
(* Python integers as pairs.  An operator that uses an operand more than    *)
(* once first binds its value, as Python evaluates an operand once.         *)

\* The value of a one-element set of values.
The(S) == CHOOSE x \in S : TRUE

Norm(h, l) == <<h + (l \div 65536), l % 65536>>

\* The Python integer n, for n within TLC's range.
Py(n) == The({Norm(0, x) : x \in {n}})

\* The TLC integer of a pair, for values within TLC's range.
Val(a) == The({x[1] * 65536 + x[2] : x \in {a}})

Add(a, b) == The({Norm(x[1] + y[1], x[2] + y[2]) : x \in {a}, y \in {b}})

Sub(a, b) == The({Norm(x[1] - y[1], x[2] - y[2]) : x \in {a}, y \in {b}})

Neg(a) == Sub(<<0, 0>>, a)

Less(a, b) ==
    The({x[1] < y[1] \/ (x[1] = y[1] /\ x[2] < y[2]) : x \in {a}, y \in {b}})

IsNeg(a) == a[1] < 0

Abs(a) == The({IF IsNeg(x) THEN Neg(x) ELSE x : x \in {a}})

\* value & 0xFFFFFFFF
Mask32(a) == The({<<x[1] % 65536, x[2]>> : x \in {a}})

\* Python's &, | and ^ on two's-complement integers of any sign.
RECURSIVE BitOp(_, _, _)
BitOp(op, x, y) ==
    LET bx == x % 2
        by == y % 2
        b  == CASE op = "and" -> bx * by
                [] op = "or"  -> IF bx + by > 0 THEN 1 ELSE 0
                [] op = "xor" -> (bx + by) % 2
    IN  IF x \in {0, -1} /\ y \in {0, -1}
        THEN -b
        ELSE 2 * BitOp(op, x \div 2, y \div 2) + b

Bitwise(op, a, b) ==
    The({<<BitOp(op, x[1], y[1]), BitOp(op, x[2], y[2])>> : x \in {a}, y \in {b}})

\* a >> k for 0 <= k < 16, and a >> 16
ShrSmall(a, k) ==
    The({<<x[1] \div 2^k, (x[1] % 2^k) * 2^(16 - k) + (x[2] \div 2^k)>> :
         x \in {a}})

Shr16(a) == The({Norm(0, x) : x \in {a[1]}})

\* a >> k for a shift count k >= 0 (a TLC integer).
RECURSIVE Shr(_, _)
Shr(a, k) ==
    IF k >= 64 THEN (IF IsNeg(a) THEN <<-1, 65535>> ELSE <<0, 0>>)
    ELSE IF k >= 16 THEN Shr(Shr16(a), k - 16)
    ELSE ShrSmall(a, k)

\* a << k for 0 <= k < 16, and a << 16
ShlSmall(a, k) == The({Norm(x[1] * 2^k, x[2] * 2^k) : x \in {a}})

Shl16(a) == The({<<x[1] * 65536 + x[2], 0>> : x \in {a}})

\* a << k for a shift count k >= 0 (a TLC integer).
RECURSIVE Shl(_, _)
Shl(a, k) == IF k >= 16 THEN Shl(Shl16(a), k - 16) ELSE ShlSmall(a, k)

\* a * b for a, b >= 0, by 16-bit and 8-bit limbs so that no partial product
\* leaves TLC's range.
MulNat(a, b) ==
    The({Norm(x[1] * y[1] * 65536 + x[1] * y[2] + y[1] * x[2]
                 + (x[2] \div 256) * (y[2] \div 256),
              ((x[2] \div 256) * (y[2] % 256) + (x[2] % 256) * (y[2] \div 256)) * 256
                 + (x[2] % 256) * (y[2] % 256)) : x \in {a}, y \in {b}})

Mul(a, b) ==
    The({IF IsNeg(x) = IsNeg(y) THEN MulNat(Abs(x), Abs(y))
         ELSE Neg(MulNat(Abs(x), Abs(y))) : x \in {a}, y \in {b}})

\* <<a // d, a % d>> for a divisor 0 < d < 2^23, by long division on the high
\* limb and the two bytes of the low limb.
DivModSmall(a, d) ==
    The({The({The({<<Norm(x[1] \div d, (t1 \div d) * 256 + (t2 \div d)),
                     <<0, t2 % d>>>> :
                   t2 \in {(t1 % d) * 256 + (x[2] % 256)}}) :
              t1 \in {(x[1] % d) * 256 + (x[2] \div 256)}}) :
         x \in {a}})

\* <<a // b, a % b>> for a >= 0 and b > 0, by doubling the divisor.
DivStep(d, b) ==
    IF Less(d[2], b) THEN <<Add(d[1], d[1]), d[2]>>
    ELSE <<Add(Add(d[1], d[1]), <<0, 1>>), Sub(d[2], b)>>

RECURSIVE DivMod(_, _)
DivMod(a, b) ==
    IF Less(a, b) THEN <<<<0, 0>>, a>>
    ELSE The({DivStep(d, b) : d \in {DivMod(a, bb) : bb \in {Add(b, b)}}})

\* Python's floor division a // b and remainder a % b, for b # 0.
FloorDivMod(a, b) ==
    IF b[1] >= 0 /\ b[1] < 128 THEN DivModSmall(a, Val(b))
    ELSE The({IF IsNeg(a) = IsNeg(b) /\ ~IsNeg(b) THEN d
              ELSE IF IsNeg(a) = IsNeg(b) THEN <<d[1], Neg(d[2])>>
              ELSE IF d[2] = <<0, 0>> THEN <<Neg(d[1]), <<0, 0>>>>
              ELSE <<Sub(<<-1, 65535>>, d[1]),
                     IF IsNeg(b) THEN Sub(d[2], Abs(b)) ELSE Sub(b, d[2])>> :
              d \in {DivMod(x, y) : x \in {Abs(a)}, y \in {Abs(b)}}})

FloorDiv(a, b) == The({FloorDivMod(x, y)[1] : x \in {a}, y \in {b}})

Mod(a, b) == The({FloorDivMod(x, y)[2] : x \in {a}, y \in {b}})

-----------------------------------------------------------------------------
(* registers.py                                                            *)

XZR == 36

Flags == [zero |-> FALSE, negative |-> FALSE, carry |-> FALSE,
          overflow |-> FALSE, error |-> FALSE]

\* RegisterFile.__init__ and RegisterFile.reset
RegisterFile == [registers |-> [i \in 0..31 |-> <<0, 0>>],
                 pc |-> <<0, 0>>, lr |-> <<0, 0>>, sp |-> Py(4096),
                 flags |-> Flags]

\* RegisterFile.get: the value, or a ValueError.
RegGet(rf, index) ==
    IF index = XZR THEN [ok |-> TRUE, value |-> <<0, 0>>]
    ELSE IF 0 <= index /\ index < 32
         THEN [ok |-> TRUE, value |-> rf.registers[index]]
    ELSE IF index = 32 THEN [ok |-> TRUE, value |-> rf.pc]
    ELSE IF index = 33 THEN [ok |-> TRUE, value |-> rf.lr]
    ELSE IF index = 34 THEN [ok |-> TRUE, value |-> rf.sp]
    ELSE [ok |-> FALSE, value |-> <<0, 0>>]

\* Whether RegisterFile.set raises ValueError for this index.
RegSetRaises(index) == ~(index \in {0, XZR} \/ (0 < index /\ index < 32)
                         \/ index \in {32, 33, 34})

\* RegisterFile.set as it would be with 0 <= index < 32 tested first: R0 is
\* written like any other register.
RegSetUnguarded(rf, index, value) ==
    IF index = XZR THEN rf
    ELSE IF 0 <= index /\ index < 32
         THEN [rf EXCEPT !.registers[index] = Mask32(value)]
    ELSE rf

\* RegisterFile.set
RegSet(rf, index, value) ==
    LET v == Mask32(value)
    IN  IF index \in {0, XZR} THEN rf
        ELSE IF 0 < index /\ index < 32
             THEN [rf EXCEPT !.registers[index] = v]
        ELSE IF index = 32 THEN [rf EXCEPT !.pc = v]
        ELSE IF index = 33 THEN [rf EXCEPT !.lr = v]
        ELSE IF index = 34 THEN [rf EXCEPT !.sp = v]
        ELSE rf

\* RegisterFile.update_flags(result) with the default carry and overflow.
UpdateFlags(rf, result) ==
    [rf EXCEPT !.flags.zero = (result = <<0, 0>>),
               !.flags.negative = (Bitwise("and", result, <<32768, 0>>) # <<0, 0>>),
               !.flags.carry = FALSE,
               !.flags.overflow = FALSE]

-----------------------------------------------------------------------------
(* isa.py                                                                  *)

\* class Opcode: the enum's members and their values.
Opcode == [ADD |-> 0, ADDS |-> 1, ADDI |-> 2, ADDIS |-> 3, SUB |-> 4,
           SUBS |-> 5, SUBI |-> 6, SUBIS |-> 7, MUL |-> 8, MULI |-> 9,
           DIV |-> 10, DIVI |-> 11, AND |-> 12, ANDI |-> 13, OR |-> 14,
           ORI |-> 15, XOR |-> 16, XORI |-> 17, SHL |-> 18, SHR |-> 19,
           CMP |-> 20, MOD |-> 21, MODI |-> 22, MOV |-> 23, MOVI |-> 24,
           LDR |-> 32, STR |-> 33,
           JMP |-> 48, BEQ |-> 49, BLT |-> 50, CAL |-> 51, FLUSH |-> 52]

\* An Instruction object.
Instr(type, opcode, rd, rs1, rs2, imm) ==
    [type |-> type, opcode |-> opcode, rd |-> rd, rs1 |-> rs1, rs2 |-> rs2,
     imm |-> imm]

\* Python's None where an Instruction is expected.
None == Instr("NONE", "NONE", 0, 0, 0, <<0, 0>>)

\* A field read without the shift: word & mask
FieldUnshifted(word, shift, mask) == Val(Bitwise("and", word, Py(mask)))

\* (word >> shift) & mask, a small number.
Field(word, shift, mask) == Val(Bitwise("and", Shr(word, shift), Py(mask)))

\* Instruction.decode
Decode(word) ==
    LET instr_type == Field(word, 30, 3)
        opcode == CASE instr_type = 0 -> Field(word, 25, 31)
                    [] instr_type = 1 -> Field(word, 28, 3)
                    [] OTHER          -> Field(word, 27, 7)
        regform == opcode \in {Opcode.JMP, Opcode.CAL, Opcode.FLUSH}
        rd  == CASE instr_type = 0 -> Field(word, 20, 31)
                 [] instr_type = 1 -> Field(word, 23, 31)
                 [] OTHER          -> 0
        rs1 == CASE instr_type = 0 -> Field(word, 15, 31)
                 [] instr_type = 1 -> Field(word, 18, 31)
                 [] OTHER          -> IF regform THEN Field(word, 22, 31) ELSE 0
        rs2 == IF instr_type = 0 THEN Field(word, 10, 31) ELSE 0
        raw == CASE instr_type = 0 -> Bitwise("and", word, Py(1023))
                 [] instr_type = 1 -> Bitwise("and", word, <<3, 65535>>)
                 [] OTHER          -> IF regform THEN <<0, 0>>
                                      ELSE Bitwise("and", word, <<2047, 65535>>)
        imm == CASE instr_type = 0 ->
                      IF Bitwise("and", raw, Py(512)) # <<0, 0>>
                      THEN Bitwise("or", raw, <<65535, 64512>>) ELSE raw
                 [] instr_type = 1 ->
                      IF Bitwise("and", raw, <<2, 0>>) # <<0, 0>>
                      THEN Bitwise("or", raw, <<65532, 0>>) ELSE raw
                 [] OTHER ->
                      IF Bitwise("and", raw, <<1024, 0>>) # <<0, 0>>
                      THEN Bitwise("or", raw, <<63488, 0>>) ELSE raw
        value == BitOp("or", opcode, instr_type * 32)
        names == {n \in DOMAIN Opcode : Opcode[n] = value}
    IN  IF names = {} THEN None
        ELSE Instr(CASE instr_type = 0 -> "ARITHMETIC"
                     [] instr_type = 1 -> "MEMORY"
                     [] OTHER          -> "CONTROL",
                   CHOOSE n \in names : TRUE, rd, rs1, rs2, imm)

\* word |= (field & mask) << shift
OrField(word, field, mask, shift) ==
    Bitwise("or", word, Shl(Py(BitOp("and", field, mask)), shift))

\* Instruction.encode
Encode(self) ==
    IF self.type = "ARITHMETIC"
    THEN Bitwise("or",
             OrField(OrField(OrField(OrField(<<0, 0>>,
                 Opcode[self.opcode], 31, 25), self.rd, 31, 20),
                 self.rs1, 31, 15), self.rs2, 31, 10),
             Bitwise("and", self.imm, Py(1023)))
    ELSE IF self.type = "MEMORY"
    THEN Bitwise("or",
             OrField(OrField(OrField(Shl(Py(1), 30),
                 Opcode[self.opcode], 3, 28), self.rd, 31, 23),
                 self.rs1, 31, 18),
             Bitwise("and", self.imm, <<3, 65535>>))
    ELSE LET w == OrField(Shl(Py(2), 30), Opcode[self.opcode], 7, 27)
         IN  IF self.opcode \in {"JMP", "CAL", "FLUSH"}
             THEN OrField(w, self.rs1, 31, 22)
             ELSE Bitwise("or", w, Bitwise("and", self.imm, <<2047, 65535>>))

-----------------------------------------------------------------------------
(* memory.py                                                               *)

\* A Python list of n equal items whose entries other than a default are
\* held in a finite map: list[k] and list[k] = v.
Lookup(list, k, default) == IF k \in DOMAIN list THEN list[k] ELSE default

Store(list, k, v, default) ==
    IF v = default
    THEN [x \in DOMAIN list \ {k} |-> list[x]]
    ELSE [x \in DOMAIN list \cup {k} |-> IF x = k THEN v ELSE list[x]]

Empty == [x \in {} |-> 0]

\* Optional[int]: None is <<>> and the integer n is <<n>>.
NoAddr == <<>>

\* [0] * line_size
LineData(line_size) == [i \in 1..line_size |-> <<0, 0>>]

\* class CacheLine
CacheLine == [valid |-> FALSE, tag |-> 0, data |-> LineData(8), dirty |-> FALSE]

\* Cache.__init__ and Cache.reset
Cache(size, line_size, access_time) ==
    [size |-> size, line_size |-> line_size, access_time |-> access_time,
     lines |-> Empty, hits |-> 0, misses |-> 0, last_miss_addr |-> NoAddr,
     instruction_fetch_count |-> 0]

\* Cache.get_line_index, get_tag and get_offset of a Python integer; the
\* index and the offset are small, the tag is as large as the address.
get_line_index(self, address) ==
    Val(Mod(FloorDiv(address, Py(self.line_size)), Py(self.size)))

get_tag(self, address) == FloorDiv(address, Py(self.size * self.line_size))

get_offset(self, address) == Val(Mod(address, Py(self.line_size)))

\* Cache.read: the cache afterwards and the tuple (hit, data, cycles).
CacheRead(self, address, is_instruction_fetch) ==
    LET line_index == get_line_index(self, Py(address))
        tag == Val(get_tag(self, Py(address)))
        offset == get_offset(self, Py(address))
        line == Lookup(self.lines, line_index, CacheLine)
        counted == /\ ~is_instruction_fetch \/ self.instruction_fetch_count = 0
                   /\ <<address>> # self.last_miss_addr
        c1 == IF counted
              THEN [self EXCEPT !.misses = @ + 1, !.last_miss_addr = <<address>>]
              ELSE self
        c2 == IF is_instruction_fetch
              THEN [c1 EXCEPT !.instruction_fetch_count = @ + 1]
              ELSE c1
    IN  IF line.valid /\ line.tag = tag
        THEN [cache |-> IF ~is_instruction_fetch
                        THEN [self EXCEPT !.hits = @ + 1] ELSE self,
              hit |-> TRUE, data |-> line.data[offset + 1],
              cycles |-> self.access_time]
        ELSE [cache |-> c2, hit |-> FALSE, data |-> <<0, 0>>,
              cycles |-> self.access_time]

\* Cache.write: the cache afterwards and the tuple (hit, cycles).
CacheWrite(self, address, value) ==
    LET line_index == get_line_index(self, Py(address))
        tag == Val(get_tag(self, Py(address)))
        offset == get_offset(self, Py(address))
        line == Lookup(self.lines, line_index, CacheLine)
        written == [line EXCEPT !.valid = TRUE, !.tag = tag,
                                !.data[offset + 1] = Mask32(value),
                                !.dirty = TRUE]
        lines == Store(self.lines, line_index, written, CacheLine)
    IN  IF line.valid /\ line.tag = tag
        THEN [cache |-> [self EXCEPT !.hits = @ + 1, !.lines = lines],
              hit |-> TRUE, cycles |-> self.access_time]
        ELSE [cache |-> IF <<address>> # self.last_miss_addr
                        THEN [self EXCEPT !.misses = @ + 1,
                                          !.last_miss_addr = <<address>>,
                                          !.lines = lines]
                        ELSE [self EXCEPT !.lines = lines],
              hit |-> FALSE, cycles |-> self.access_time]

\* A read miss that allocates nothing.
NoRefill(self, address, data) == self

\* The refill of a line on a read: valid, tagged, zeroed, one word set.
Refill(self, address, data) ==
    [self EXCEPT !.lines =
        Store(@, get_line_index(self, Py(address)),
              [Lookup(@, get_line_index(self, Py(address)), CacheLine)
                  EXCEPT !.valid = TRUE, !.tag = Val(get_tag(self, Py(address))),
                         !.data = [LineData(self.line_size)
                                     EXCEPT ![get_offset(self, Py(address)) + 1] = data]],
              CacheLine)]

\* MemorySystem.__init__ with the default memory_size
MemorySystem(cache_enabled) ==
    [size |-> 16384, memory |-> Empty, cache_enabled |-> cache_enabled,
     L1_cache |-> Cache(32, 8, 1), L2_cache |-> Cache(128, 8, 10),
     memory_access_time |-> 100, last_fetch_addr |-> NoAddr, cycles |-> 0,
     program_end |-> 0]

\* A reset that clears the counters and leaves the stored words and the
\* cache lines as they are.
MemResetCountersOnly(self) ==
    [self EXCEPT !.L1_cache.hits = 0, !.L1_cache.misses = 0,
                 !.L2_cache.hits = 0, !.L2_cache.misses = 0,
                 !.last_fetch_addr = NoAddr, !.cycles = 0, !.program_end = 0]

\* MemorySystem.reset
MemReset(self) ==
    [self EXCEPT !.memory = Empty,
                 !.L1_cache = Cache(@.size, @.line_size, @.access_time),
                 !.L2_cache = Cache(@.size, @.line_size, @.access_time),
                 !.last_fetch_addr = NoAddr, !.cycles = 0, !.program_end = 0]

\* not 0 <= address // 4 < len(self.memory)
InvalidAddress(self, address) ==
    LET word_index == FloorDiv(address, Py(4))
    IN  ~(~IsNeg(word_index) /\ Less(word_index, Py(self.size)))

\* A read that never takes the early return of a repeated fetch.
FetchNeverRepeated(self, addr, is_instruction_fetch) == FALSE

\* is_instruction_fetch and address == self.last_fetch_addr
repeated_fetch(self, addr, is_instruction_fetch) ==
    is_instruction_fetch /\ <<addr>> = self.last_fetch_addr

\* MemorySystem.read: the system afterwards and the tuple (data, cycles), or
\* a ValueError (ok is FALSE) that leaves the system as it was.
MemRead(self, address, is_instruction_fetch) ==
    IF InvalidAddress(self, address)
    THEN [mem |-> self, ok |-> FALSE, data |-> <<0, 0>>, cycles |-> 0]
    ELSE
    LET addr == Val(address)
        word_index == addr \div 4
        word == Lookup(self.memory, word_index, <<0, 0>>)
        s1 == IF is_instruction_fetch
              THEN [self EXCEPT !.last_fetch_addr = <<addr>>] ELSE self
    IN  IF ~self.cache_enabled
        THEN [mem |-> [self EXCEPT !.cycles = @ + self.memory_access_time],
              ok |-> TRUE, data |-> word, cycles |-> self.memory_access_time]
        ELSE IF repeated_fetch(self, addr, is_instruction_fetch)
        THEN [mem |-> self, ok |-> TRUE, data |-> word, cycles |-> 0]
        ELSE The({
          IF r1.hit
          THEN [mem |-> [s1 EXCEPT !.L1_cache = r1.cache,
                                   !.cycles = @ + r1.cycles],
                ok |-> TRUE, data |-> r1.data, cycles |-> r1.cycles]
          ELSE The({
            IF r2.hit
            THEN [mem |-> [s1 EXCEPT !.L1_cache = Refill(r1.cache, addr, r2.data),
                                     !.L2_cache = r2.cache,
                                     !.cycles = @ + r1.cycles + r2.cycles],
                  ok |-> TRUE, data |-> r2.data, cycles |-> r1.cycles + r2.cycles]
            ELSE [mem |-> [s1 EXCEPT !.L1_cache = Refill(r1.cache, addr, word),
                                     !.L2_cache = Refill(r2.cache, addr, word),
                                     !.cycles = @ + r1.cycles + r2.cycles
                                                  + self.memory_access_time],
                  ok |-> TRUE, data |-> word,
                  cycles |-> r1.cycles + r2.cycles + self.memory_access_time] :
            r2 \in {CacheRead(self.L2_cache, addr, is_instruction_fetch)}}) :
          r1 \in {CacheRead(self.L1_cache, addr, is_instruction_fetch)}})

\* MemorySystem.write: the system afterwards and the cycles, or a ValueError.
MemWrite(self, address, value) ==
    IF InvalidAddress(self, address)
    THEN [mem |-> self, ok |-> FALSE, cycles |-> 0]
    ELSE
    LET addr == Val(address)
        word_index == addr \div 4
        stored == Store(self.memory, word_index, value, <<0, 0>>)
    IN  IF ~self.cache_enabled
        THEN [mem |-> [self EXCEPT !.memory = stored,
                                   !.cycles = @ + self.memory_access_time],
              ok |-> TRUE, cycles |-> self.memory_access_time]
        ELSE The({
          LET cycles == w1.cycles + w2.cycles + self.memory_access_time
          IN  [mem |-> [self EXCEPT !.memory = stored, !.L1_cache = w1.cache,
                                    !.L2_cache = w2.cache,
                                    !.cycles = @ + cycles],
               ok |-> TRUE, cycles |-> cycles] :
          w1 \in {CacheWrite(self.L1_cache, addr, value)},
          w2 \in {CacheWrite(self.L2_cache, addr, value)}})

\* One level of MemorySystem.flush_cache_line: the four stores of a matching
\* line (whose tag is then the address's), or the IndexError of the first
\* store beyond the end of memory.
FlushLevel(self, cache, level, address) ==
    LET line_index == get_line_index(cache, address)
        tag == get_tag(cache, address)
        line == Lookup(cache.lines, line_index, CacheLine)
        base == (line.tag * cache.size * 4) + (line_index * 4)
        m0 == Store(self.memory, base, line.data[1], <<0, 0>>)
        m1 == Store(m0, base + 1, line.data[2], <<0, 0>>)
        m2 == Store(m1, base + 2, line.data[3], <<0, 0>>)
        m3 == Store(m2, base + 3, line.data[4], <<0, 0>>)
        clean == [cache EXCEPT !.lines =
                     Store(@, line_index, [line EXCEPT !.dirty = FALSE], CacheLine)]
    IN  IF ~(line.valid /\ Py(line.tag) = tag) THEN [mem |-> self, ok |-> TRUE]
        ELSE IF base >= self.size THEN [mem |-> self, ok |-> FALSE]
        ELSE [mem |-> IF level = 1
                      THEN [self EXCEPT !.memory = m3, !.L1_cache = clean]
                      ELSE [self EXCEPT !.memory = m3, !.L2_cache = clean],
              ok |-> TRUE]

\* MemorySystem.flush_cache_line
FlushCacheLine(self, address) ==
    IF ~self.cache_enabled THEN [mem |-> self, ok |-> TRUE]
    ELSE The({IF ~f1.ok THEN f1
              ELSE FlushLevel(f1.mem, f1.mem.L2_cache, 2, address) :
              f1 \in {FlushLevel(self, self.L1_cache, 1, address)}})

\* The loop of MemorySystem.load_program from word i on.
RECURSIVE LoadWords(_, _, _)
LoadWords(self, prog, i) ==
    IF i > Len(prog) THEN self
    ELSE
    LET addr == i - 1
        word == Mask32(prog[i])
        L1 == self.L1_cache
        line_index == get_line_index(L1, Py(addr))
        tag == Val(get_tag(L1, Py(addr)))
        offset == get_offset(L1, Py(addr))
        line == Lookup(L1.lines, line_index, CacheLine)
        alloc == IF ~line.valid \/ line.tag # tag
                 THEN [line EXCEPT !.valid = TRUE, !.tag = tag,
                                   !.data = LineData(L1.line_size)]
                 ELSE line
        loaded == [alloc EXCEPT !.data[offset + 1] = word]
        s1 == [self EXCEPT !.memory = Store(@, addr, word, <<0, 0>>)]
        s2 == IF self.cache_enabled
              THEN [s1 EXCEPT !.L1_cache.lines =
                                  Store(@, line_index, loaded, CacheLine)]
              ELSE s1
    IN  The({LoadWords(s, prog, i + 1) : s \in {s2}})

\* MemorySystem.load_program
MemLoadProgram(self, prog) ==
    The({[LoadWords(s, prog, 1) EXCEPT !.program_end = Len(prog)] :
         s \in {MemReset(self)}})

-----------------------------------------------------------------------------
(* pipeline.py                                                             *)

\* class PipelineRegister: a latch.  rs1, rs2, imm, alu_result and
\* memory_data are Python integers; rd is a register index.
PipelineRegister ==
    [instruction |-> None, pc |-> <<0, 0>>, rs1 |-> <<0, 0>>, rs2 |-> <<0, 0>>,
     rd |-> 0, imm |-> <<0, 0>>, alu_result |-> <<0, 0>>,
     memory_data |-> <<0, 0>>, write_back |-> FALSE, hazard |-> "NONE"]

\* class PipelineStage
PipelineStage == {"FETCH", "DECODE", "EXECUTE", "MEMORY", "WRITEBACK"}

\* Pipeline.__init__
Pipeline ==
    [pc |-> <<0, 0>>, stages |-> [st \in PipelineStage |-> PipelineRegister],
     stalled |-> FALSE, flushed |-> FALSE, cycles |-> 0, instructions |-> 0,
     stall_count |-> 0, flush_count |-> 0, enabled |-> TRUE,
     sequential_stage |-> 0]

\* Pipeline.reset: everything but the enabled switch.
PipelineReset(self) == [Pipeline EXCEPT !.enabled = self.enabled]

\* Pipeline.detect_hazard
detect_hazard(self, stage) ==
    LET current == self.stages[stage]
        execute == self.stages["EXECUTE"]
        memory_ == self.stages["MEMORY"]
        ci == current.instruction
    IN  IF ci = None THEN "NONE"
        ELSE IF /\ execute.instruction # None /\ execute.write_back
                /\ (ci.rs1 = execute.rd \/ ci.rs2 = execute.rd)
                /\ execute.rd # 0
        THEN "RAW"
        ELSE IF /\ memory_.instruction # None /\ memory_.write_back
                /\ (ci.rs1 = memory_.rd \/ ci.rs2 = memory_.rd)
                /\ memory_.rd # 0
        THEN "RAW"
        ELSE IF /\ current.write_back /\ current.rd # 0
                /\ \/ execute.write_back /\ current.rd = execute.rd
                   \/ memory_.write_back /\ current.rd = memory_.rd
        THEN "WAW"
        ELSE IF /\ current.write_back /\ current.rd # 0
                /\ \/ /\ execute.instruction # None
                      /\ (current.rd = execute.instruction.rs1
                          \/ current.rd = execute.instruction.rs2)
                   \/ /\ memory_.instruction # None
                      /\ (current.rd = memory_.instruction.rs1
                          \/ current.rd = memory_.instruction.rs2)
        THEN "WAR"
        ELSE "NONE"

\* Pipeline.forward_data
forward_data(self, stage) ==
    LET current == self.stages[stage]
        ci == current.instruction
        execute == self.stages["EXECUTE"]
        fromx == execute.instruction # None /\ execute.write_back
        a1 == IF fromx /\ ci.rs1 = execute.rd /\ execute.rd # 0
              THEN [self EXCEPT !.stages[stage].rs1 = execute.alu_result]
              ELSE self
        a2 == IF fromx /\ ci.rs2 = execute.rd /\ execute.rd # 0
              THEN [a1 EXCEPT !.stages[stage].rs2 = execute.alu_result]
              ELSE a1
        memory_ == a2.stages["MEMORY"]
        x2 == a2.stages["EXECUTE"]
        fromm == memory_.instruction # None /\ memory_.write_back
        value == IF memory_.instruction.type = "MEMORY"
                    /\ memory_.instruction.opcode = "LDR"
                 THEN memory_.memory_data ELSE memory_.alu_result
        a3 == IF fromm /\ ci.rs1 = memory_.rd /\ memory_.rd # 0
                 /\ memory_.rd # x2.rd
              THEN [a2 EXCEPT !.stages[stage].rs1 = value]
              ELSE a2
        a4 == IF fromm /\ ci.rs2 = memory_.rd /\ memory_.rd # 0
                 /\ memory_.rd # x2.rd
              THEN [a3 EXCEPT !.stages[stage].rs2 = value]
              ELSE a3
    IN  IF stage = "FETCH" \/ ci = None THEN self ELSE a4

\* Pipeline.stall_pipeline
stall_pipeline(self) == [self EXCEPT !.stalled = TRUE]

\* Pipeline.flush_pipeline
flush_pipeline(self) ==
    [self EXCEPT !.flushed = TRUE,
                 !.stages = [st \in PipelineStage |->
                                [@[st] EXCEPT !.instruction = None,
                                              !.write_back = FALSE]]]

\* Pipeline.handle_hazard (detect_hazard never answers CONTROL)
handle_hazard(self, stage) ==
    LET hazard == detect_hazard(self, stage)
    IN  CASE hazard = "NONE" -> self
          [] hazard = "RAW" -> forward_data(self, stage)
          [] hazard \in {"WAR", "WAW"} -> stall_pipeline(self)

\* self.handle_hazard(stage) followed by self.forward_data(stage), as the
\* execute, memory and decode stages end.
hazard_and_forward(self, stage) ==
    The({forward_data(h, stage) : h \in {handle_hazard(p, stage) : p \in {self}}})

\* The machine the stage methods act on: the register file, the memory
\* system, the pipeline object, and whether an exception is propagating.
World(rf, mem, pl) ==
    [registers |-> rf, memory |-> mem, pipeline |-> pl, raised |-> FALSE]

\* Pipeline.writeback
writeback(w) ==
    LET self == w.pipeline
        memory_ == self.stages["MEMORY"]
        instruction == memory_.instruction
        result == memory_.alu_result
    IN  IF self.stalled \/ self.flushed THEN w
        ELSE IF instruction = None THEN w
        ELSE [w EXCEPT
                !.registers = IF memory_.write_back /\ instruction.rd # 0
                              THEN RegSet(@, instruction.rd, result) ELSE @,
                !.pipeline.stages["MEMORY"].instruction = None,
                !.pipeline.instructions = @ + 1]

\* Pipeline.memory_stage.  A ValueError of MemorySystem.read or write leaves
\* the latch half updated and the EXECUTE latch uncleared.
memory_stage(w) ==
    LET self == w.pipeline
        execute == self.stages["EXECUTE"]
        instruction == execute.instruction
        moved == [self EXCEPT
                    !.stages["MEMORY"].instruction = execute.instruction,
                    !.stages["MEMORY"].pc = execute.pc,
                    !.stages["MEMORY"].rd = execute.rd,
                    !.stages["MEMORY"].alu_result = execute.alu_result,
                    !.stages["MEMORY"].write_back = execute.write_back]
        addr == execute.alu_result
        cleared(accessed) ==
            [accessed EXCEPT !.stages["EXECUTE"].instruction = None]
    IN  IF self.stalled \/ self.flushed THEN w
        ELSE IF instruction = None THEN w
        ELSE IF instruction.type = "MEMORY" /\ instruction.opcode = "LDR"
        THEN The({
          IF ~rd.ok THEN [w EXCEPT !.pipeline = moved, !.raised = TRUE]
          ELSE [w EXCEPT
                  !.memory = rd.mem,
                  !.pipeline = hazard_and_forward(
                      cleared([moved EXCEPT
                                 !.stages["MEMORY"].alu_result = rd.data,
                                 !.stages["MEMORY"].write_back = TRUE]),
                      "MEMORY")] :
          rd \in {MemRead(w.memory, addr, FALSE)}})
        ELSE IF instruction.type = "MEMORY" /\ instruction.opcode = "STR"
        THEN The({
          IF ~wr.ok THEN [w EXCEPT !.pipeline = moved, !.raised = TRUE]
          ELSE [w EXCEPT
                  !.memory = wr.mem,
                  !.pipeline = hazard_and_forward(
                      cleared([moved EXCEPT !.stages["MEMORY"].write_back = FALSE]),
                      "MEMORY")] :
          wr \in {MemWrite(w.memory, addr, execute.rs2)}})
        ELSE [w EXCEPT !.pipeline = hazard_and_forward(cleared(moved), "MEMORY")]

\* rs1 << imm and rs1 >> imm as Python computes them.
ShiftLeft(a, imm) == IF a = <<0, 0>> THEN <<0, 0>> ELSE Shl(a, Val(imm))

ShiftRight(a, imm) ==
    IF imm[1] > 0 THEN (IF IsNeg(a) THEN <<-1, 65535>> ELSE <<0, 0>>)
    ELSE Shr(a, imm[2])

\* The arithmetic of Pipeline.execute: the result of an ARITHMETIC opcode.
Alu(opcode, rs1, rs2, imm) ==
    CASE opcode \in {"ADD", "ADDS"} -> Add(rs1, rs2)
      [] opcode \in {"ADDI", "ADDIS"} -> Add(rs1, imm)
      [] opcode \in {"SUB", "SUBS", "CMP"} -> Sub(rs1, rs2)
      [] opcode \in {"SUBI", "SUBIS"} -> Sub(rs1, imm)
      [] opcode = "MUL" -> Mul(rs1, rs2)
      [] opcode = "MULI" -> Mul(rs1, imm)
      [] opcode = "DIV" -> IF rs2 # <<0, 0>> THEN FloorDiv(rs1, rs2) ELSE <<0, 0>>
      [] opcode = "DIVI" -> IF imm # <<0, 0>> THEN FloorDiv(rs1, imm) ELSE <<0, 0>>
      [] opcode = "AND" -> Bitwise("and", rs1, rs2)
      [] opcode = "ANDI" -> Bitwise("and", rs1, imm)
      [] opcode = "OR" -> Bitwise("or", rs1, rs2)
      [] opcode = "ORI" -> Bitwise("or", rs1, imm)
      [] opcode = "XOR" -> Bitwise("xor", rs1, rs2)
      [] opcode = "XORI" -> Bitwise("xor", rs1, imm)
      [] opcode = "SHL" -> ShiftLeft(rs1, imm)
      [] opcode = "SHR" -> ShiftRight(rs1, imm)
      [] opcode = "MOD" -> IF rs2 # <<0, 0>> THEN Mod(rs1, rs2) ELSE <<0, 0>>
      [] opcode = "MODI" -> IF imm # <<0, 0>> THEN Mod(rs1, imm) ELSE <<0, 0>>
      [] opcode = "MOV" -> rs1
      [] opcode = "MOVI" -> imm

\* An execute that updates the flags whatever the opcode.
flagged_always(instruction) == TRUE

\* The opcodes for which Pipeline.execute calls update_flags.
flagged(instruction) ==
    /\ instruction.type = "ARITHMETIC"
    /\ instruction.opcode \in {"ADDS", "ADDIS", "SUBS", "SUBIS", "CMP"}

\* Pipeline.execute.  An IndexError of flush_cache_line propagates with the
\* latch loaded and its result not yet stored.
execute(w) ==
    LET self == w.pipeline
        decode_ == self.stages["DECODE"]
        instruction == decode_.instruction
        moved == [self EXCEPT
                    !.stages["EXECUTE"].instruction = decode_.instruction,
                    !.stages["EXECUTE"].pc = decode_.pc,
                    !.stages["EXECUTE"].rs1 = decode_.rs1,
                    !.stages["EXECUTE"].rs2 = decode_.rs2,
                    !.stages["EXECUTE"].rd = decode_.rd,
                    !.stages["EXECUTE"].imm = decode_.imm]
        x == [rs1 |-> decode_.rs1, rs2 |-> decode_.rs2, imm |-> decode_.imm,
              pc |-> decode_.pc]
        opcode == instruction.opcode
        taken == \/ opcode \in {"JMP", "CAL"}
                 \/ opcode = "BEQ" /\ w.registers.flags.zero
                 \/ opcode = "BLT" /\ w.registers.flags.negative
        target == IF opcode \in {"JMP", "CAL"} THEN Add(x.rs1, x.imm)
                  ELSE Add(x.pc, x.imm)
        controlled == IF instruction.type = "CONTROL" /\ taken
                      THEN flush_pipeline([moved EXCEPT !.pc = target])
                      ELSE moved
        flushing == instruction.type = "CONTROL" /\ opcode = "FLUSH"
        stored(result) ==
            [controlled EXCEPT
               !.stages["EXECUTE"].write_back =
                   \/ instruction.type = "ARITHMETIC"
                   \/ instruction.type = "MEMORY" /\ opcode = "LDR",
               !.stages["EXECUTE"].alu_result = result]
    IN  IF self.stalled \/ self.flushed THEN w
        ELSE IF instruction = None
        THEN [w EXCEPT !.pipeline.stages["EXECUTE"].instruction = None]
        ELSE IF flushing
        THEN The({
          IF ~fl.ok
          THEN [w EXCEPT !.memory = fl.mem, !.pipeline = moved, !.raised = TRUE]
          ELSE [w EXCEPT
                  !.memory = fl.mem,
                  !.pipeline = hazard_and_forward(stored(<<0, 0>>), "EXECUTE")] :
          fl \in {FlushCacheLine(w.memory, x.rs1)}})
        ELSE The({
          [w EXCEPT
             !.registers = IF flagged(instruction)
                           THEN UpdateFlags(@, result) ELSE @,
             !.pipeline = hazard_and_forward(stored(result), "EXECUTE")] :
          result \in {CASE instruction.type = "ARITHMETIC" ->
                             Alu(opcode, x.rs1, x.rs2, x.imm)
                        [] instruction.type = "MEMORY" -> Add(x.rs1, x.imm)
                        [] OTHER -> <<0, 0>>}})

\* Pipeline.decode.  RegisterFile has no method read: the lookup of
\* self.registers.read raises AttributeError for a source register other
\* than R0, after the latch took the instruction's fields.
decode(w) ==
    LET self == w.pipeline
        fetch_ == self.stages["FETCH"]
        instruction == fetch_.instruction
        moved == [self EXCEPT
                    !.stages["DECODE"].instruction = instruction,
                    !.stages["DECODE"].pc = fetch_.pc,
                    !.stages["DECODE"].rs1 = Py(instruction.rs1),
                    !.stages["DECODE"].rs2 = Py(instruction.rs2),
                    !.stages["DECODE"].rd = instruction.rd,
                    !.stages["DECODE"].imm = instruction.imm]
    IN  IF self.stalled \/ self.flushed THEN w
        ELSE IF instruction = None
        THEN [w EXCEPT !.pipeline.stages["DECODE"].instruction = None]
        ELSE IF instruction.rs1 # 0 \/ instruction.rs2 # 0
        THEN [w EXCEPT !.pipeline = moved, !.raised = TRUE]
        ELSE [w EXCEPT !.pipeline = hazard_and_forward(moved, "DECODE")]

\* Pipeline.fetch
fetch(w) ==
    LET self == w.pipeline
        empty == [self EXCEPT !.stages["FETCH"].instruction = None]
        loaded(instruction) ==
            [self EXCEPT !.stages["FETCH"].instruction = instruction,
                         !.stages["FETCH"].pc = self.pc]
    IN  IF self.stalled \/ self.flushed THEN w
        ELSE IF IsNeg(self.pc) \/ ~Less(self.pc, Py(w.memory.size * 4))
        THEN [w EXCEPT !.pipeline = empty]
        ELSE The({
          IF ~r.ok THEN [w EXCEPT !.pipeline = empty]
          ELSE The({
            IF instruction = None
            THEN [w EXCEPT !.memory = r.mem, !.pipeline = empty]
            ELSE [w EXCEPT !.memory = r.mem,
                           !.pipeline = The({handle_hazard(p, "FETCH") :
                                             p \in {loaded(instruction)}})] :
            instruction \in {Decode(r.data)}}) :
          r \in {MemRead(w.memory, self.pc, TRUE)}})

\* self.pc += 4 when neither stalled nor flushed, and what else the final
\* stage of a sequential instruction adds.
advance(w, counted) ==
    IF w.pipeline.stalled \/ w.pipeline.flushed THEN w
    ELSE [w EXCEPT !.pipeline.pc = Add(@, Py(4)),
                   !.pipeline.instructions = IF counted THEN @ + 1 ELSE @]

\* The sequential branch of Pipeline.step
step_sequential(w) ==
    LET k == w.pipeline.sequential_stage
    IN  The({IF done.raised THEN done
             ELSE [done EXCEPT !.pipeline.sequential_stage = (k + 1) % 5,
                               !.pipeline.cycles = @ + 1] :
             done \in {CASE k = 0 -> fetch(w)
                         [] k = 1 -> decode(w)
                         [] k = 2 -> execute(w)
                         [] k = 3 -> memory_stage(w)
                         [] k = 4 -> The({advance(w1, TRUE) :
                                          w1 \in {writeback(w)}})}})

\* The pipelined branch of Pipeline.step: the stages in reverse order, each
\* on the machine the stage before it left, unless an exception is already
\* propagating.
step_pipelined(w) ==
    The({IF w5.raised THEN w5 ELSE advance(w5, FALSE) :
         w5 \in {IF w4.raised THEN w4 ELSE fetch(w4) :
         w4 \in {IF w3.raised THEN w3 ELSE decode(w3) :
         w3 \in {IF w2.raised THEN w2 ELSE execute(w2) :
         w2 \in {IF w1.raised THEN w1 ELSE memory_stage(w1) :
         w1 \in {writeback(w)}}}}}})

\* Pipeline.step
step(w) == IF ~w.pipeline.enabled THEN step_sequential(w) ELSE step_pipelined(w)

\* Pipeline.run: num_cycles calls of step; an exception ends the loop.
RECURSIVE run(_, _)
run(w, num_cycles) ==
    IF num_cycles = 0 \/ w.raised THEN w
    ELSE The({run(w1, num_cycles - 1) : w1 \in {step(w)}})

-----------------------------------------------------------------------------
(* assembler.py.  A source line is held as its mnemonic and the operands    *)
(* its text spells: a register rN, an integer literal, a name, or a memory  *)
(* operand [rN, offset]; a label line is held as the label's name.          *)

Reg(n) == [kind |-> "reg", n |-> n, s |-> "", off |-> 0]

Imm(n) == [kind |-> "imm", n |-> n, s |-> "", off |-> 0]

Name(s) == [kind |-> "name", n |-> 0, s |-> s, off |-> 0]

MemOp(base, offset) == [kind |-> "mem", n |-> base, s |-> "", off |-> offset]

Line(mnemonic, operands) ==
    [label |-> "", mnemonic |-> mnemonic, operands |-> operands]

Label(name) == [label |-> name, mnemonic |-> "", operands |-> <<>>]

\* Assembler.parse_register: <<n>>, or <<>> for None.
parse_register(operand) ==
    IF operand.kind = "reg" /\ 0 <= operand.n /\ operand.n <= 31
    THEN <<operand.n>> ELSE <<>>

\* Assembler.parse_immediate: <<n>>, or <<>> for None.
parse_immediate(operand) == IF operand.kind = "imm" THEN <<operand.n>> ELSE <<>>

\* Assembler.parse_memory_operand: the base register and the offset.
parse_memory_operand(operand) ==
    IF operand.kind = "mem"
    THEN <<parse_register(Reg(operand.n)), <<operand.off>>>>
    ELSE <<<<>>, <<>>>>

\* Assembler.parse_instruction with resolve_labels=True: the Instruction, or
\* None after add_error.
parse_instruction(symbols, current_address, line) ==
    LET mnemonic == line.mnemonic
        operands == line.operands
        n == Len(operands)
        reg(i) == parse_register(operands[i])
        imm(i) == parse_immediate(operands[i])
        mem == parse_memory_operand(operands[2])
        relative == (symbols[operands[1].s] - (current_address + 4)) \div 4
    IN  IF mnemonic \in {"ADD", "ADDS", "SUB", "SUBS", "MUL", "DIV", "AND",
                         "OR", "XOR", "MOD"}
        THEN IF n # 3 \/ reg(1) = <<>> \/ reg(2) = <<>> \/ reg(3) = <<>>
             THEN None
             ELSE Instr("ARITHMETIC", mnemonic, reg(1)[1], reg(2)[1], reg(3)[1],
                        <<0, 0>>)
        ELSE IF mnemonic \in {"ADDI", "ADDIS", "SUBI", "SUBIS", "MULI", "DIVI",
                              "ANDI", "ORI", "XORI", "MODI", "MOVI"}
        THEN IF n \notin {2, 3} \/ reg(1) = <<>> THEN None
             ELSE IF n = 2
             THEN IF imm(2) = <<>> THEN None
                  ELSE Instr("ARITHMETIC", mnemonic, reg(1)[1], 0, 0, Py(imm(2)[1]))
             ELSE IF reg(2) = <<>> \/ imm(3) = <<>> THEN None
                  ELSE Instr("ARITHMETIC", mnemonic, reg(1)[1], reg(2)[1], 0,
                             Py(imm(3)[1]))
        ELSE IF mnemonic = "CMP"
        THEN IF n # 2 \/ reg(1) = <<>> \/ reg(2) = <<>> THEN None
             ELSE Instr("ARITHMETIC", "CMP", 0, reg(1)[1], reg(2)[1], <<0, 0>>)
        ELSE IF mnemonic \in {"LDR", "STR"}
        THEN IF n # 2 \/ reg(1) = <<>> \/ mem[1] = <<>> \/ mem[2] = <<>>
             THEN None
             ELSE IF mnemonic = "LDR"
             THEN Instr("MEMORY", "LDR", reg(1)[1], mem[1][1], 0, Py(mem[2][1]))
             ELSE Instr("MEMORY", "STR", 0, mem[1][1], reg(1)[1], Py(mem[2][1]))
        ELSE IF mnemonic \in {"BEQ", "BLT"}
        THEN IF n # 1 THEN None
             ELSE IF imm(1) # <<>>
             THEN Instr("CONTROL", mnemonic, 0, 0, 0, Py(imm(1)[1]))
             ELSE IF operands[1].s \notin DOMAIN symbols THEN None
             ELSE Instr("CONTROL", mnemonic, 0, 0, 0, Py(relative))
        ELSE IF mnemonic = "JMP"
        THEN IF n # 1 THEN None
             ELSE IF reg(1) # <<>>
             THEN Instr("CONTROL", "JMP", 0, reg(1)[1], 0, <<0, 0>>)
             ELSE IF operands[1].s \notin DOMAIN symbols THEN None
             ELSE Instr("CONTROL", "JMP", 0, 0, 0, Py(relative))
        ELSE IF mnemonic \in {"CAL", "FLUSH"}
        THEN IF n # 1 \/ reg(1) = <<>> THEN None
             ELSE Instr("CONTROL", mnemonic, 0, reg(1)[1], 0, <<0, 0>>)
        ELSE None

\* collect_labels without its effect: no label is recorded.
no_labels(source, i, symbols, current_address) == symbols

\* The first pass of Assembler.assemble from line i on: the symbol table.
RECURSIVE collect_labels(_, _, _, _)
collect_labels(source, i, symbols, current_address) ==
    IF i > Len(source) THEN symbols
    ELSE IF source[i].label # ""
    THEN The({collect_labels(source, i + 1, t, current_address) :
              t \in {IF source[i].label \in DOMAIN symbols THEN symbols
                     ELSE [x \in DOMAIN symbols \cup {source[i].label} |->
                             IF x = source[i].label THEN current_address
                             ELSE symbols[x]]}})
    ELSE collect_labels(source, i + 1, symbols, current_address + 4)

\* The second pass from line i on: the encoded instructions.  It returns at
\* a BEQ whose target is the address of a label.
RECURSIVE parse_lines(_, _, _, _, _)
parse_lines(source, i, symbols, current_address, instructions) ==
    IF i > Len(source) THEN instructions
    ELSE IF source[i].label # ""
    THEN parse_lines(source, i + 1, symbols, current_address, instructions)
    ELSE The({
      IF instr = None
      THEN parse_lines(source, i + 1, symbols, current_address, instructions)
      ELSE The({
        IF /\ instr.type = "CONTROL" /\ instr.opcode = "BEQ"
           /\ \E x \in DOMAIN symbols :
                 Py(symbols[x]) = Add(Py(current_address + 4), Shl(instr.imm, 2))
        THEN out
        ELSE parse_lines(source, i + 1, symbols, current_address + 4, out) :
        out \in {Append(instructions, Encode(instr))}}) :
      instr \in {parse_instruction(symbols, current_address, source[i])}})

\* Assembler.assemble: the list of encoded instructions.
assemble(source) ==
    The({parse_lines(source, 1, symbols, 0, <<>>) :
         symbols \in {collect_labels(source, 1, Empty, 0)}})

\* The errors of the first pass from line i on: the lines that declare a
\* label already in the symbol table.
RECURSIVE first_pass_errors(_, _, _, _)
first_pass_errors(source, i, seen, errors) ==
    IF i > Len(source) THEN errors
    ELSE IF source[i].label = ""
    THEN first_pass_errors(source, i + 1, seen, errors)
    ELSE IF source[i].label \in seen
    THEN first_pass_errors(source, i + 1, seen, Append(errors, i))
    ELSE first_pass_errors(source, i + 1, seen \cup {source[i].label}, errors)

\* The errors of the second pass from line i on: the lines for which
\* parse_instruction called add_error and returned None, up to the line at
\* which assemble returns.
RECURSIVE second_pass_errors(_, _, _, _, _)
second_pass_errors(source, i, symbols, current_address, errors) ==
    IF i > Len(source) THEN errors
    ELSE IF source[i].label # ""
    THEN second_pass_errors(source, i + 1, symbols, current_address, errors)
    ELSE The({
      IF instr = None
      THEN second_pass_errors(source, i + 1, symbols, current_address,
                              Append(errors, i))
      ELSE IF /\ instr.type = "CONTROL" /\ instr.opcode = "BEQ"
              /\ \E x \in DOMAIN symbols :
                    Py(symbols[x]) =
                        Add(Py(current_address + 4), Shl(instr.imm, 2))
      THEN errors
      ELSE second_pass_errors(source, i + 1, symbols, current_address + 4,
                              errors) :
      instr \in {parse_instruction(symbols, current_address, source[i])}})

\* Assembler.assemble: the pair it returns, the encoded instructions and
\* the error list (each error by the number of its line).
assemble_both(source) ==
    The({[instructions |-> parse_lines(source, 1, symbols, 0, <<>>),
          errors |-> second_pass_errors(source, 1, symbols, 0,
                         first_pass_errors(source, 1, {}, <<>>))] :
         symbols \in {collect_labels(source, 1, Empty, 0)}})

-----------------------------------------------------------------------------
(* The programs and register settings of the tests, and the model's bounds. *)

\* registers.set(i, v) calls made before a program is loaded: those of the
\* pipeline tests, and writes to the two zero registers.
SetCalls == {<<2, 5>>, <<3, 3>>, <<5, 2>>, <<1, 100>>, <<2, 42>>,
             <<0, 42>>, <<XZR, 7>>}

\* Instruction(type=ARITHMETIC, ...) and Instruction(type=MEMORY, ...)
Arith(opcode, rd, rs1, rs2, imm) ==
    Instr("ARITHMETIC", opcode, rd, rs1, rs2, Py(imm))

Mem(opcode, rd, rs1, rs2, imm) == Instr("MEMORY", opcode, rd, rs1, rs2, Py(imm))

\* test_arithmetic_instructions: ADD R1, R2, R3
ProgAdd == <<Encode(Arith("ADD", 1, 2, 3, 0))>>

\* One and two independent immediate instructions on R0 sources.
ProgAddi == <<Encode(Arith("ADDI", 1, 0, 0, 7))>>

ProgAddi2 == <<Encode(Arith("ADDI", 1, 0, 0, 7)), Encode(Arith("ADDI", 2, 0, 0, 9))>>

\* test_hazard_detection: ADD R1, R2, R3 ; ADD R4, R1, R5
ProgForward ==
    <<Encode(Arith("ADD", 1, 2, 3, 0)), Encode(Arith("ADD", 4, 1, 5, 0))>>

\* test_memory_instructions: STR R2, [R1, 0] ; LDR R3, [R1, 0]
ProgStoreLoad ==
    <<Encode(Mem("STR", 0, 1, 2, 0)), Encode(Mem("LDR", 3, 1, 0, 0))>>

\* test_arithmetic_instructions, division by zero, with R0 as the dividend:
\* DIVI R1, R0, 0
ProgDivZero == <<Encode(Arith("DIVI", 1, 0, 0, 0))>>

\* A store into the program's own third word, ahead of its execution:
\* STR R0, [R0, 8] ; ADDI R0, R0, 1 ; CMP R0, R0
ProgSelfModify ==
    <<Encode(Mem("STR", 0, 0, 0, 8)), Encode(Arith("ADDI", 0, 0, 0, 1)),
      Encode(Arith("CMP", 0, 0, 0, 0))>>

\* Instructions that write no register, then a word that decodes to None.
ProgIdle ==
    <<Encode(Arith("ADDI", 0, 0, 0, 1)), Encode(Arith("CMP", 0, 0, 0, 0)),
      Encode(Instr("CONTROL", "BEQ", 0, 0, 0, Py(1)))>>

\* A store and a load whose effective address is one word past the end of
\* the memory: STR R0, [R0, 65536] and LDR R0, [R0, 65536]
ProgStoreOutside == <<Encode(Mem("STR", 0, 0, 0, 65536))>>

ProgLoadOutside == <<Encode(Mem("LDR", 0, 0, 0, 65536))>>

\* The branch program of the assembler scenario, as Assembler.assemble
\* emits it.
SourceBranch ==
    <<Line("ADDI", <<Reg(1), Reg(0), Imm(1)>>),
      Line("CMP", <<Reg(1), Reg(0)>>),
      Line("BEQ", <<Name("skip")>>),
      Line("ADDI", <<Reg(2), Reg(0), Imm(99)>>),
      Label("skip"),
      Line("ADDI", <<Reg(3), Reg(0), Imm(7)>>)>>

ProgBranch == assemble(SourceBranch)

\* test_labels, with the immediate of the seed scenario: start: /
\* ADDI R1, R0, 3 / loop: / SUBI R1, R1, 1 / BEQ loop
SourceLabels ==
    <<Label("start"),
      Line("ADDI", <<Reg(1), Reg(0), Imm(3)>>),
      Label("loop"),
      Line("SUBI", <<Reg(1), Reg(1), Imm(1)>>),
      Line("BEQ", <<Name("loop")>>)>>

\* The lines the assembled sources are made of: instructions that parse, a
\* label and branches to it, lines with an error (an undefined label,
\* register r32, an unknown mnemonic), and a line whose immediate needs
\* more than ten bits.
AsmLines ==
    {Line("ADDI", <<Reg(1), Reg(0), Imm(3)>>),
     Line("ADDI", <<Reg(1), Reg(0), Imm(1024)>>),
     Line("SUBI", <<Reg(1), Reg(1), Imm(1)>>),
     Label("loop"),
     Line("BEQ", <<Name("loop")>>),
     Line("BEQ", <<Name("end")>>),
     Line("ADDI", <<Reg(32), Reg(0), Imm(3)>>),
     Line("START:", <<Name("ADDI R1"), Reg(0), Imm(3)>>)}

MaxLines == 3

\* The sources handed to the assembler.
Sources ==
    {SourceLabels, SourceBranch}
    \cup UNION {[1 .. n -> AsmLines] : n \in 1 .. MaxLines}

MaxSets == 3

MaxSteps == 12

MaxOps == 3

ScanLen == 8

\* Byte addresses and values handed to the MemorySystem: two words of one
\* line, an address that shares its L1 line index, and one past the end.
MemAddrs == {0, 4, 256, 65536}

MemValues == {Py(42), Py(-1)}

ScanStarts == {0, 256}

ScanStrides == {4, 8, 32}

\* A call made by the driver and what it returned.
CallOf(op, arg, value, is_fetch) ==
    [op |-> op, arg |-> arg, value |-> value, fetch |-> is_fetch]

NoCall == CallOf("none", <<0, 0>>, <<0, 0>>, FALSE)

Returned(ok, data, cycles) == [ok |-> ok, data |-> data, cycles |-> cycles]

NoReturn == Returned(TRUE, <<0, 0>>, 0)

\* A loop of reads: for k in range(ScanLen): read(start + k * stride, fetch)
ScanOf(cache, start, stride, is_fetch, k) ==
    [cache |-> cache, start |-> start, stride |-> stride, fetch |-> is_fetch,
     k |-> k]

NoScan == ScanOf(TRUE, 0, 0, FALSE, 0)

\* The function the driver applied last, its argument and what it returned;
\* first is the input the driver started from.
Applied(fn, arg, out, first) ==
    [fn |-> fn, arg |-> arg, out |-> out, first |-> first]

NoApp == Applied("none", 0, 0, 0)

\* The input the driver starts from, before any function is applied.
Input(x) == Applied("none", x, x, x)

\* The opcodes of the three formats of the opcode table.
ArithmeticOpcodes ==
    {"ADD", "ADDS", "ADDI", "ADDIS", "SUB", "SUBS", "SUBI", "SUBIS", "MUL",
     "MULI", "DIV", "DIVI", "AND", "ANDI", "OR", "ORI", "XOR", "XORI", "SHL",
     "SHR", "CMP", "MOD", "MODI", "MOV", "MOVI"}

MemoryOpcodes == {"LDR", "STR"}

RegisterControlOpcodes == {"JMP", "CAL", "FLUSH"}

ImmediateControlOpcodes == {"BEQ", "BLT"}

\* Register indices of the instructions handed to the codec: the least,
\* the greatest, and one whose bits alternate.
CodecRegs == {0, 21, 31}

\* The least and the greatest immediate of a field of the given width,
\* and the values around zero.
Imms(width) == {0, 1, -1, 2 ^ (width - 1) - 1, -(2 ^ (width - 1))}

\* Legal instructions: an opcode of the table, indices within 0..31, an
\* immediate within the field of its format, unused fields zero.
LegalInstructions ==
    {Arith(o, rd, rs1, rs2, i) :
        o \in ArithmeticOpcodes, rd \in CodecRegs, rs1 \in CodecRegs,
        rs2 \in CodecRegs, i \in Imms(10)}
    \cup {Mem(o, rd, rs1, 0, i) :
        o \in MemoryOpcodes, rd \in CodecRegs, rs1 \in CodecRegs,
        i \in Imms(18)}
    \cup {Instr("CONTROL", o, 0, rs1, 0, Py(0)) :
        o \in RegisterControlOpcodes, rs1 \in CodecRegs}
    \cup {Instr("CONTROL", o, 0, 0, 0, Py(i)) :
        o \in ImmediateControlOpcodes, i \in Imms(27)}

\* 32-bit words handed to Instruction.decode: every value of the seven
\* leading bits (format and a five-bit opcode), over several settings of
\* the bits below them.
CodecWords ==
    {<<k * 512 + m, l>> :
        k \in 0 .. 127, m \in {0, 1, 340, 511},
        l \in {0, 1, 512, 1023, 1024, 32768, 43690, 65535}}

-----------------------------------------------------------------------------
(* The state after construction, and the operations of the drivers.         *)

Init ==
    /\ registers = RegisterFile
    /\ memory = MemorySystem(TRUE)
    /\ pipeline = Pipeline
    /\ phase = "setup"
    /\ program = <<>>
    /\ regs0 = RegisterFile
    /\ nsteps = 0
    /\ call = NoCall
    /\ prev = NoCall
    /\ ret = NoReturn
    /\ nops = 0
    /\ raised = FALSE
    /\ scan = NoScan
    /\ app = NoApp

\* The driver makes call c: the call before it becomes the previous one.
Called(c) == prev' = call /\ call' = c

\* registers.set(i, v) before the program is loaded.
Set(i, v) ==
    /\ phase = "setup" /\ nops < MaxSets
    /\ registers' = RegSet(registers, i, v)
    /\ Called(CallOf("set", Py(i), v, FALSE))
    /\ nops' = nops + 1
    /\ UNCHANGED <<memory, pipeline, phase, program, regs0, nsteps, ret,
                   raised, scan, app>>

\* The pipeline switch: pipeline.enabled = not pipeline.enabled
TogglePipeline ==
    /\ phase = "setup"
    /\ pipeline' = [pipeline EXCEPT !.enabled = ~@]
    /\ Called(CallOf("toggle_pipeline", <<0, 0>>, <<0, 0>>, FALSE))
    /\ UNCHANGED <<registers, memory, phase, program, regs0, nsteps, ret,
                   nops, raised, scan, app>>

\* The cache switch: memory.cache_enabled = not memory.cache_enabled
ToggleCache ==
    /\ phase = "setup"
    /\ memory' = [memory EXCEPT !.cache_enabled = ~@]
    /\ Called(CallOf("toggle_cache", <<0, 0>>, <<0, 0>>, FALSE))
    /\ UNCHANGED <<registers, pipeline, phase, program, regs0, nsteps, ret,
                   nops, raised, scan, app>>

\* pipeline.memory.load_program(p), after which the program is run.
LoadProgram(p) ==
    /\ phase = "setup"
    /\ memory' = MemLoadProgram(memory, p)
    /\ phase' = "run"
    /\ program' = p
    /\ regs0' = registers
    /\ nsteps' = 0
    /\ Called(CallOf("load_program", <<0, 0>>, <<0, 0>>, FALSE))
    /\ UNCHANGED <<registers, pipeline, ret, nops, raised, scan, app>>

\* pipeline.step().  An exception leaves the machine as it was when raised
\* and ends the run.
Step ==
    /\ phase = "run" /\ ~raised /\ nsteps < MaxSteps
    /\ \E w \in {step(World(registers, memory, pipeline))} :
          /\ registers' = w.registers
          /\ memory' = w.memory
          /\ pipeline' = w.pipeline
          /\ raised' = w.raised
    /\ nsteps' = nsteps + 1
    /\ Called(CallOf("step", <<0, 0>>, <<0, 0>>, FALSE))
    /\ UNCHANGED <<phase, program, regs0, ret, nops, scan, app>>

\* The reset button: pipeline.reset(), memory.reset(), registers.reset(),
\* also by a driver that caught the exception of a step.
Reset ==
    /\ phase = "run"
    /\ pipeline' = PipelineReset(pipeline)
    /\ memory' = MemReset(memory)
    /\ registers' = RegisterFile
    /\ phase' = "setup"
    /\ program' = <<>>
    /\ regs0' = RegisterFile
    /\ nsteps' = 0
    /\ raised' = FALSE
    /\ Called(CallOf("reset", <<0, 0>>, <<0, 0>>, FALSE))
    /\ UNCHANGED <<ret, nops, scan, app>>

Programs ==
    {ProgAdd, ProgAddi, ProgAddi2, ProgForward, ProgStoreLoad, ProgIdle,
     ProgBranch, ProgStoreOutside, ProgLoadOutside, ProgDivZero,
     ProgSelfModify}

Next ==
    \/ \E c \in SetCalls : Set(c[1], Py(c[2]))
    \/ TogglePipeline
    \/ ToggleCache
    \/ \E p \in Programs : LoadProgram(p)
    \/ Step
    \/ Reset

Spec == Init /\ [][Next]_vars

-----------------------------------------------------------------------------
(* The MemorySystem driven through its own methods.  A ValueError or an     *)
(* IndexError is caught by the driver: ret.ok is then FALSE.                *)

\* memory.read(a, is_instruction_fetch)
Read(a, is_fetch) ==
    /\ phase = "setup" /\ nops < MaxOps
    /\ \E r \in {MemRead(memory, a, is_fetch)} :
          /\ memory' = r.mem
          /\ ret' = Returned(r.ok, r.data, r.cycles)
    /\ Called(CallOf("read", a, <<0, 0>>, is_fetch))
    /\ nops' = nops + 1
    /\ UNCHANGED <<registers, pipeline, phase, program, regs0, nsteps, raised,
                   scan, app>>

\* memory.write(a, v)
Write(a, v) ==
    /\ phase = "setup" /\ nops < MaxOps
    /\ \E r \in {MemWrite(memory, a, v)} :
          /\ memory' = r.mem
          /\ ret' = Returned(r.ok, <<0, 0>>, r.cycles)
    /\ Called(CallOf("write", a, v, FALSE))
    /\ nops' = nops + 1
    /\ UNCHANGED <<registers, pipeline, phase, program, regs0, nsteps, raised,
                   scan, app>>

\* memory.flush_cache_line(a)
Flush(a) ==
    /\ phase = "setup" /\ nops < MaxOps
    /\ \E r \in {FlushCacheLine(memory, a)} :
          /\ memory' = r.mem
          /\ ret' = Returned(r.ok, <<0, 0>>, 0)
    /\ Called(CallOf("flush_cache_line", a, <<0, 0>>, FALSE))
    /\ nops' = nops + 1
    /\ UNCHANGED <<registers, pipeline, phase, program, regs0, nsteps, raised,
                   scan, app>>

\* memory.load_program(p)
Load(p) ==
    /\ phase = "setup" /\ nops < MaxOps
    /\ memory' = MemLoadProgram(memory, p)
    /\ program' = p
    /\ ret' = NoReturn
    /\ Called(CallOf("load_program", <<0, 0>>, <<0, 0>>, FALSE))
    /\ nops' = nops + 1
    /\ UNCHANGED <<registers, pipeline, phase, regs0, nsteps, raised, scan, app>>

\* memory.reset()
ResetMemory ==
    /\ phase = "setup" /\ nops < MaxOps
    /\ memory' = MemReset(memory)
    /\ program' = <<>>
    /\ ret' = NoReturn
    /\ Called(CallOf("reset", <<0, 0>>, <<0, 0>>, FALSE))
    /\ nops' = nops + 1
    /\ UNCHANGED <<registers, pipeline, phase, regs0, nsteps, raised, scan, app>>

MemPrograms == {ProgStoreLoad, ProgIdle}

NextMem ==
    \/ \E a \in MemAddrs, f \in BOOLEAN : Read(Py(a), f)
    \/ \E a \in MemAddrs, v \in MemValues : Write(Py(a), v)
    \/ \E a \in MemAddrs : Flush(Py(a))
    \/ \E p \in MemPrograms : Load(p)
    \/ ResetMemory
    \/ ToggleCache

SpecMem == Init /\ [][NextMem]_vars

-----------------------------------------------------------------------------
(* A loop of reads over a fresh MemorySystem.                               *)

\* mem = MemorySystem(cache_enabled=c), before the loop.
ScanBegin(c, start, stride, is_fetch) ==
    /\ phase = "setup"
    /\ memory' = MemorySystem(c)
    /\ phase' = "scan"
    /\ scan' = ScanOf(c, start, stride, is_fetch, 0)
    /\ Called(CallOf("MemorySystem", <<0, 0>>, <<0, 0>>, FALSE))
    /\ UNCHANGED <<registers, pipeline, program, regs0, nsteps, ret, nops,
                   raised, app>>

\* The loop's next mem.read(i, is_fetch)
ScanRead ==
    /\ phase = "scan" /\ scan.k < ScanLen
    /\ \E a \in {Py(scan.start + scan.k * scan.stride)} :
          /\ \E r \in {MemRead(memory, a, scan.fetch)} :
                /\ memory' = r.mem
                /\ ret' = Returned(r.ok, r.data, r.cycles)
          /\ Called(CallOf("read", a, <<0, 0>>, scan.fetch))
    /\ scan' = [scan EXCEPT !.k = @ + 1]
    /\ UNCHANGED <<registers, pipeline, phase, program, regs0, nsteps, nops,
                   raised, app>>

NextScan ==
    \/ \E c \in BOOLEAN, start \in ScanStarts, stride \in ScanStrides,
          f \in BOOLEAN : ScanBegin(c, start, stride, f)
    \/ ScanRead

SpecScan == Init /\ [][NextScan]_vars

-----------------------------------------------------------------------------
(* The codec applied to instructions and to words.                          *)

\* The driver holds a legal instruction or a 32-bit word.
InitCodec ==
    /\ registers = RegisterFile
    /\ memory = MemorySystem(TRUE)
    /\ pipeline = Pipeline
    /\ program = <<>>
    /\ regs0 = RegisterFile
    /\ nsteps = 0
    /\ call = NoCall
    /\ prev = NoCall
    /\ ret = NoReturn
    /\ nops = 0
    /\ raised = FALSE
    /\ scan = NoScan
    /\ \/ phase = "instruction" /\ app \in {Input(I) : I \in LegalInstructions}
       \/ phase = "word" /\ app \in {Input(w) : w \in CodecWords}

\* word = instruction.encode(), of the instruction the driver holds: the
\* one it started from, or the one decode returned.
ApplyEncode ==
    /\ \/ phase = "instruction" /\ app.fn = "none"
       \/ phase = "word" /\ app.fn = "decode" /\ app.out # None
    /\ app' = Applied("encode", app.out, Encode(app.out), app.first)
    /\ UNCHANGED <<registers, memory, pipeline, phase, program, regs0, nsteps,
                   call, prev, ret, nops, raised, scan>>

\* instruction = Instruction.decode(word), of the word the driver holds.
ApplyDecode ==
    /\ \/ phase = "word" /\ app.fn = "none"
       \/ phase = "instruction" /\ app.fn = "encode"
    /\ app' = Applied("decode", app.out, Decode(app.out), app.first)
    /\ UNCHANGED <<registers, memory, pipeline, phase, program, regs0, nsteps,
                   call, prev, ret, nops, raised, scan>>

NextCodec ==
    \/ ApplyEncode
    \/ ApplyDecode

SpecCodec == InitCodec /\ [][NextCodec]_vars

-----------------------------------------------------------------------------
(* The assembler applied to sources.                                        *)

\* The driver holds a source text.
InitAsm ==
    /\ registers = RegisterFile
    /\ memory = MemorySystem(TRUE)
    /\ pipeline = Pipeline
    /\ program = <<>>
    /\ regs0 = RegisterFile
    /\ nsteps = 0
    /\ call = NoCall
    /\ prev = NoCall
    /\ ret = NoReturn
    /\ nops = 0
    /\ raised = FALSE
    /\ scan = NoScan
    /\ phase = "source"
    /\ app \in {Input(source) : source \in Sources}

\* instructions, errors = assembler.assemble(source)
ApplyAssemble ==
    /\ phase = "source" /\ app.fn = "none"
    /\ app' = Applied("assemble", app.first, assemble_both(app.first), app.first)
    /\ UNCHANGED <<registers, memory, pipeline, phase, program, regs0, nsteps,
                   call, prev, ret, nops, raised, scan>>

NextAsm == ApplyAssemble

SpecAsm == InitAsm /\ [][NextAsm]_vars

-----------------------------------------------------------------------------
(* Pipeline.execute applied to a DECODE latch that holds a control          *)
(* instruction.  No word fetched from memory decodes to one, so the latch   *)
(* is set as Pipeline.decode would set it from such an instruction.         *)

\* Values latched for rs1, branch offsets and addresses of the instruction.
LatchValues == {Py(0), Py(16)}

BranchOffsets == {Py(8), Py(-4)}

LatchPcs == {Py(0), Py(8)}

\* The DECODE latch of a control instruction at address pc.
ControlLatch(opcode, pc, rs1, imm) ==
    [PipelineRegister EXCEPT
        !.instruction = Instr("CONTROL", opcode, 0, 0, 0, imm),
        !.pc = pc, !.rs1 = rs1, !.imm = imm]

\* The DECODE latch of an arithmetic or memory instruction with destination
\* R1 whose operands have the given values.
OpLatch(opcode, rs1, rs2, imm) ==
    [PipelineRegister EXCEPT
        !.instruction = Instr(IF opcode \in MemoryOpcodes
                              THEN "MEMORY" ELSE "ARITHMETIC",
                              opcode, 1, 2, 3, imm),
        !.rd = 1, !.rs1 = rs1, !.rs2 = rs2, !.imm = imm]

\* The MEMORY latch as memory_stage leaves it for ADDI R1, R0, 7, the
\* instruction before the one in DECODE.
OlderLatch ==
    [PipelineRegister EXCEPT
        !.instruction = Arith("ADDI", 1, 0, 0, 7), !.rd = 1,
        !.alu_result = Py(7), !.write_back = TRUE]

\* The MEMORY latch as memory_stage leaves it for LDR R3, [R0, 0] when the
\* word read is 42: the word is in alu_result.
LoadedLatch ==
    [PipelineRegister EXCEPT
        !.instruction = Mem("LDR", 3, 0, 0, 0), !.rd = 3,
        !.alu_result = Py(42), !.write_back = TRUE]

\* The DECODE latch of ADD R4, R3, R0 decoded while R3 is still 0.
ReaderLatch ==
    [PipelineRegister EXCEPT
        !.instruction = Arith("ADD", 4, 3, 0, 0), !.pc = Py(4), !.rd = 4]

\* The DECODE latch of ADDIS R1, R2, -5 decoded from its word while R2 is 5:
\* test_arithmetic_instructions.
FlagLatch ==
    LET instruction == Decode(Encode(Arith("ADDIS", 1, 2, 0, -5)))
    IN  [PipelineRegister EXCEPT
            !.instruction = instruction, !.rd = 1, !.rs1 = Py(5),
            !.imm = instruction.imm]

\* The MEMORY latch as execute and memory_stage leave it for CMP R1, R2, R3
\* with operand values 16 and 0: execute sets write_back for every
\* ARITHMETIC opcode.
CmpLatch ==
    [PipelineRegister EXCEPT
        !.instruction = Arith("CMP", 1, 2, 3, 0), !.rd = 1,
        !.alu_result = Py(16), !.write_back = TRUE]

\* The DECODE latch of the branch line of the branch program, written with
\* the given mnemonic: the instruction the second pass of the assembler
\* builds for it, at its byte address 8.
LabelLatch(mnemonic) ==
    LET source == [SourceBranch EXCEPT
                      ![3] = Line(mnemonic, <<Name("skip")>>)]
        symbols == collect_labels(source, 1, Empty, 0)
        instruction == parse_instruction(symbols, 8, source[3])
    IN  [PipelineRegister EXCEPT
            !.instruction = instruction, !.pc = Py(8),
            !.imm = instruction.imm]

\* A machine whose flags are set and whose DECODE latch is loaded, with or
\* without an older instruction in the MEMORY latch.
InitExecute ==
    /\ \E z \in BOOLEAN, n \in BOOLEAN :
          registers = [RegisterFile EXCEPT !.flags.zero = z,
                                          !.flags.negative = n]
    /\ memory = MemorySystem(TRUE)
    /\ \/ \E o \in RegisterControlOpcodes \cup ImmediateControlOpcodes,
             pc \in LatchPcs, v \in LatchValues, i \in BranchOffsets,
             m \in {PipelineRegister, OlderLatch} :
             pipeline = [Pipeline EXCEPT
                            !.stages["DECODE"] =
                                IF o \in RegisterControlOpcodes
                                THEN ControlLatch(o, pc, v, <<0, 0>>)
                                ELSE ControlLatch(o, pc, <<0, 0>>, i),
                            !.stages["MEMORY"] = m]
       \/ \E m \in {PipelineRegister, OlderLatch, LoadedLatch} :
             pipeline = [Pipeline EXCEPT !.stages["DECODE"] = ReaderLatch,
                                         !.stages["MEMORY"] = m]
       \/ pipeline = [Pipeline EXCEPT !.stages["DECODE"] = FlagLatch]
       \/ \E o \in {"BEQ", "BLT", "JMP"} :
             pipeline = [Pipeline EXCEPT !.stages["DECODE"] = LabelLatch(o)]
       \/ pipeline = [Pipeline EXCEPT !.stages["MEMORY"] = CmpLatch]
       \/ \E o \in ArithmeticOpcodes \cup MemoryOpcodes,
             a \in LatchValues, b \in LatchValues, i \in LatchValues :
             pipeline = [Pipeline EXCEPT
                            !.stages["DECODE"] = OpLatch(o, a, b, i)]
    /\ phase = "execute"
    /\ program = <<>>
    /\ regs0 = registers
    /\ nsteps = 0
    /\ call = NoCall
    /\ prev = NoCall
    /\ ret = NoReturn
    /\ nops = 0
    /\ raised = FALSE
    /\ scan = NoScan
    /\ app = NoApp

\* pipeline.execute()
ApplyExecute ==
    /\ phase = "execute" /\ call = NoCall
    /\ \E w \in {execute(World(registers, memory, pipeline))} :
          /\ registers' = w.registers
          /\ memory' = w.memory
          /\ pipeline' = w.pipeline
          /\ raised' = w.raised
    /\ Called(CallOf("execute", <<0, 0>>, <<0, 0>>, FALSE))
    /\ UNCHANGED <<phase, program, regs0, nsteps, ret, nops, scan, app>>

\* pipeline.writeback()
ApplyWriteback ==
    /\ phase = "execute" /\ call = NoCall
    /\ \E w \in {writeback(World(registers, memory, pipeline))} :
          /\ registers' = w.registers
          /\ memory' = w.memory
          /\ pipeline' = w.pipeline
          /\ raised' = w.raised
    /\ Called(CallOf("writeback", <<0, 0>>, <<0, 0>>, FALSE))
    /\ UNCHANGED <<phase, program, regs0, nsteps, ret, nops, scan, app>>

NextExecute == ApplyExecute \/ ApplyWriteback

SpecExecute == InitExecute /\ [][NextExecute]_vars

-----------------------------------------------------------------------------
(* The claims.                                                              *)

\* General register i of the register file.
R(i) == registers.registers[i]

\* C1: in pipelined mode, from reset, a program of N data-independent
\* arithmetic instructions (ADD R1,R2,R3; ADDI R1,R0,7; ADDI R1,R0,7 and
\* ADDI R2,R0,9) runs without an exception and after exactly N + 4 steps
\* every destination holds its result, instructions is N and nothing
\* stalled or flushed.
C1_RetiredAfterNPlus4 ==
    (phase = "run" /\ pipeline.enabled
        /\ program \in {ProgAdd, ProgAddi, ProgAddi2})
    => /\ ~raised
       /\ nsteps = Len(program) + 4 =>
            /\ pipeline.instructions = Len(program)
            /\ pipeline.stall_count = 0 /\ pipeline.flush_count = 0
            /\ ~pipeline.stalled /\ ~pipeline.flushed
            /\ R(1) = IF program = ProgAdd
                      THEN Mask32(Add(regs0.registers[2], regs0.registers[3]))
                      ELSE Py(7)
            /\ program = ProgAddi2 => R(2) = Py(9)

\* C2: write(a, v) immediately followed by read(a), at an in-range address,
\* returns v & 0xFFFFFFFF, with the cache enabled or disabled.
C2_ReadAfterWrite ==
    (call.op = "read" /\ ~call.fetch /\ prev.op = "write"
        /\ prev.arg = call.arg /\ ~InvalidAddress(memory, call.arg))
    => ret.ok /\ ret.data = Mask32(prev.value)

C4_CyclesPlusOne ==
    [][(nsteps' = nsteps + 1 /\ ~raised')
          => pipeline'.cycles = pipeline.cycles + 1]_vars

\* The WRITEBACK of the coming step retires an instruction: the stage runs
\* (every step when pipelined, the fifth of five when sequential) on a
\* MEMORY latch that holds one.
Retires ==
    /\ pipeline.enabled \/ pipeline.sequential_stage = 4
    /\ ~pipeline.stalled /\ ~pipeline.flushed
    /\ pipeline.stages["MEMORY"].instruction # None

\* C5: instructions increases by exactly 1 in a step whose WRITEBACK retires
\* an instruction and is unchanged in every other step, in both modes.
C5_InstructionsCountRetirements ==
    [][(nsteps' = nsteps + 1 /\ ~raised')
          => pipeline'.instructions =
                pipeline.instructions + (IF Retires THEN 1 ELSE 0)]_vars

\* C6: with R2=5, R3=3, R5=2, ADD R1,R2,R3 ; ADD R4,R1,R5 runs pipelined
\* without an exception and after 10 steps R1 = 8 and R4 = 10, with no stall.
C6_AddForwarding ==
    (phase = "run" /\ pipeline.enabled /\ program = ProgForward
        /\ regs0.registers[2] = Py(5) /\ regs0.registers[3] = Py(3)
        /\ regs0.registers[5] = Py(2))
    => /\ ~raised
       /\ nsteps = 10 =>
            R(1) = Py(8) /\ R(4) = Py(10) /\ pipeline.stall_count = 0

\* C7: with R1=100, R2=42, STR R2,[R1,0] ; LDR R3,[R1,0] runs pipelined
\* without an exception and after 10 steps the memory word at address 100
\* is 42 and R3 = 42.
C7_StoreThenLoad ==
    (phase = "run" /\ pipeline.enabled /\ program = ProgStoreLoad
        /\ regs0.registers[1] = Py(100) /\ regs0.registers[2] = Py(42))
    => /\ ~raised
       /\ nsteps = 10 =>
            /\ Lookup(memory.memory, 100 \div 4, <<0, 0>>) = Py(42)
            /\ R(3) = Py(42)

\* C8: the assembled program ADDI R1,R0,1 ; CMP R1,R0 ; BEQ skip ;
\* ADDI R2,R0,99 ; skip: ADDI R3,R0,7 runs pipelined from reset without an
\* exception and, once run, leaves R2 = 0 and R3 = 7 with flush_count >= 1.
C8_BranchFlush ==
    (phase = "run" /\ pipeline.enabled /\ program = ProgBranch
        /\ regs0 = RegisterFile)
    => /\ ~raised
       /\ nsteps = MaxSteps =>
            R(2) = <<0, 0>> /\ R(3) = Py(7) /\ pipeline.flush_count >= 1

\* C9: on a fresh cache-enabled MemorySystem, eight data reads of 0, 4, ...,
\* 28 produce one L1 miss, one L2 miss, seven L1 hits and 118 cycles.
C9_CacheRefill ==
    (phase = "scan" /\ scan = ScanOf(TRUE, 0, 4, FALSE, 8))
    => /\ memory.L1_cache.misses = 1 /\ memory.L2_cache.misses = 1
       /\ memory.L1_cache.hits = 7
       /\ memory.cycles = 1 + 10 + 100 + 7

\* C10: with the cache enabled, a read(a, is_instruction_fetch=true) that
\* directly follows a successful one of the same address returns 0 cycles
\* and changes nothing of the memory system: no hit or miss counter, no
\* cache line, not the cycles.
C10_RepeatedFetchIsFree ==
    [][(call.op = "read" /\ call.fetch /\ ret.ok /\ memory.cache_enabled
           /\ call' = call /\ nops' = nops + 1)
          => ret'.ok /\ ret'.cycles = 0 /\ memory' = memory]_vars

\* C10 witness: the second of two such fetches has returned.
C10_FetchedTwice ==
    /\ call.op = "read" /\ call.fetch /\ prev = call /\ ret.ok
    /\ memory.cache_enabled /\ memory.L1_cache.misses > 0

\* The value a 32-bit pattern stands for when it is read as signed.
Signed32(a) == IF Less(a, <<32768, 0>>) THEN a ELSE Sub(a, <<65536, 0>>)

\* C11: a legal instruction comes back from decode(encode(I)) as an
\* instruction with the type, opcode, rd, rs1, rs2 and signed imm of I.
C11_InstructionRoundTrip ==
    (phase = "instruction" /\ app.fn = "decode") =>
        /\ app.out # None
        /\ app.out.type = app.first.type
        /\ app.out.opcode = app.first.opcode
        /\ app.out.rd = app.first.rd
        /\ app.out.rs1 = app.first.rs1
        /\ app.out.rs2 = app.first.rs2
        /\ Signed32(app.out.imm) = app.first.imm

\* The word with the bits zeroed that its format leaves unused: the 22 bits
\* below rs1 of a register-form control word (JMP, CAL, FLUSH).
ZeroUnused(w) ==
    IF /\ Field(w, 30, 3) = 2
       /\ Field(w, 27, 7) \in {Opcode[o] % 8 : o \in RegisterControlOpcodes}
    THEN Bitwise("and", w, <<65472, 0>>)
    ELSE w

\* C12: a 32-bit word that decode accepts comes back from
\* decode(w).encode() as w with its unused bits zeroed.
C12_WordRoundTrip ==
    (phase = "word" /\ app.fn = "encode") => app.out = ZeroUnused(app.first)

\* An accepted ADDI word with a negative immediate has been decoded, the
\* immediate sign-extended, and encoded again.
C12_NegativeImmediateReencoded ==
    /\ phase = "word" /\ app.fn = "encode"
    /\ app.first = <<1364, 1023>>
    /\ app.arg.opcode = "ADDI" /\ app.arg.imm = <<65535, 65535>>

\* C13: a read of byte address 4i made right after load_program(words)
\* returns words[i] & 0xFFFFFFFF, for a data read and for an instruction
\* fetch, with the cache enabled or disabled.
C13_ProgramWordAtByteAddress ==
    \A i \in 0 .. Len(program) - 1 :
        (call.op = "read" /\ prev.op = "load_program" /\ call.arg = Py(4 * i))
            => (ret.ok /\ ret.data = Mask32(program[i + 1]))

\* C14: step() does not raise when an LDR or STR reaches MEMORY with an
\* effective address whose word index lies outside the memory.
C14_OutsideAccessDoesNotRaise ==
    (/\ phase = "run"
     /\ pipeline.stages["MEMORY"].instruction.opcode \in MemoryOpcodes
     /\ InvalidAddress(memory, pipeline.stages["MEMORY"].alu_result))
        => ~raised

\* Every word of the loaded program decodes to an instruction.
Decodable(prog) == \A i \in 1 .. Len(prog) : Decode(prog[i]) # None

\* C15: in sequential mode, from reset, with a program of decodable
\* instructions, the stalled flag is never raised, and after 5k steps
\* (k up to the length of the program) PC = 4k, sequential_stage is back at
\* 0 and the k instructions have written back: R1 = 7 once ADDI R1, R0, 7
\* is through.
C15_SequentialFiveSteps ==
    (phase = "run" /\ ~pipeline.enabled /\ Decodable(program)) =>
        /\ ~pipeline.stalled
        /\ \A k \in 0 .. Len(program) :
              nsteps = 5 * k =>
                  /\ pipeline.pc = Py(4 * k)
                  /\ pipeline.sequential_stage = 0
                  /\ (k >= 1 /\ program \in {ProgAddi, ProgAddi2})
                        => R(1) = Py(7)

\* Every line of the cache is invalid and its counters are 0.
CacheCleared(cache) ==
    /\ cache.hits = 0 /\ cache.misses = 0
    /\ \A i \in 0 .. cache.size - 1 : ~Lookup(cache.lines, i, CacheLine).valid

\* C16: after the reset of the pipeline and of the memory system, from any
\* reachable state, the pipeline's and the memory's counters are 0, every
\* L1 and L2 line is invalid, every word of the backing store is 0, and
\* stalled and flushed are false.
C16_ResetClearsEverything ==
    (call.op = "reset") =>
        /\ pipeline.cycles = 0 /\ pipeline.instructions = 0
        /\ pipeline.stall_count = 0 /\ pipeline.flush_count = 0
        /\ ~pipeline.stalled /\ ~pipeline.flushed
        /\ memory.cycles = 0
        /\ CacheCleared(memory.L1_cache) /\ CacheCleared(memory.L2_cache)
        /\ \A k \in 0 .. memory.size - 1 :
              Lookup(memory.memory, k, <<0, 0>>) = <<0, 0>>

\* A reset right after a step of the sequential machine, which had counted
\* a cycle and fetched through the caches.
C16_ResetAfterStep ==
    call.op = "reset" /\ prev.op = "step" /\ ~pipeline.enabled

\* The immediate a 27-bit field of a control word stands for.
ImmField27(word) ==
    The({IF Less(x, <<1024, 0>>) THEN x ELSE Sub(x, <<2048, 0>>) :
         x \in {Bitwise("and", word, <<2047, 65535>>)}})

InstructionLines(source) == {i \in 1 .. Len(source) : source[i].label = ""}

\* C18: assemble emits one word for every instruction line that parses
\* without error: the emitted words and the errors on instruction lines
\* together are as many as the instruction lines, whatever errors or branches
\* to defined labels come before them.
C18_OneWordPerParsedLine ==
    (app.fn = "assemble") =>
        Len(app.out.instructions)
            + Cardinality({j \in 1 .. Len(app.out.errors) :
                             app.out.errors[j] \in InstructionLines(app.first)})
        = Cardinality(InstructionLines(app.first))

\* C19: a step of the pipelined engine that raises the stalled flag (a WAW
\* or WAR hazard answered by stall_pipeline) increments stall_count by
\* exactly 1.
C19_StallCounted ==
    [][(pipeline.enabled /\ ~pipeline.stalled /\ pipeline'.stalled)
          => pipeline'.stall_count = pipeline.stall_count + 1]_vars

C21_FlagsClearedAfterStep ==
    (phase = "run" /\ pipeline.enabled /\ call.op = "step" /\ ~raised)
        => (~pipeline.stalled /\ ~pipeline.flushed)

C23_WordAddressedLine ==
    (call.op = "read" /\ ret.ok /\ memory.cache_enabled /\ ret.cycles # 0)
        => LET L1 == memory.L1_cache
               word_idx == Val(Shr(call.arg, 2))
               line == Lookup(L1.lines,
                              (word_idx \div L1.line_size) % L1.size, CacheLine)
           IN  /\ line.valid
               /\ line.tag = word_idx \div (L1.size * L1.line_size)
               /\ line.data[(word_idx % L1.line_size) + 1] = ret.data

\* C24: with the cache enabled, a read that is not short-circuited by
\* last_fetch_addr adds 1 to L1.hits + L1.misses; when L1.misses grew it
\* adds 1 to L2.hits + L2.misses, and when L1.hits grew it leaves the L2
\* counters alone.
C24_OneCounterPerRead ==
    [][(/\ call'.op = "read" /\ nops' = nops + 1 /\ ret'.ok
        /\ memory.cache_enabled
        /\ ~repeated_fetch(memory, Val(call'.arg), call'.fetch))
          => LET a == memory.L1_cache
                 b == memory'.L1_cache
                 c == memory.L2_cache
                 d == memory'.L2_cache
             IN  /\ \/ b.hits = a.hits + 1 /\ b.misses = a.misses
                    \/ b.hits = a.hits /\ b.misses = a.misses + 1
                 /\ b.hits = a.hits + 1
                      => d.hits = c.hits /\ d.misses = c.misses
                 /\ b.misses = a.misses + 1
                      => \/ d.hits = c.hits + 1 /\ d.misses = c.misses
                         \/ d.hits = c.hits /\ d.misses = c.misses + 1]_vars

\* The line that Cache.read looks up for an address is valid and carries the
\* address's tag: a read of the address hits.
Holds(cache, addr) ==
    LET line == Lookup(cache.lines, get_line_index(cache, Py(addr)), CacheLine)
    IN  line.valid /\ line.tag = Val(get_tag(cache, Py(addr)))

\* C25: a successful read returns 100 with the cache disabled and otherwise
\* 0 for a repeated fetch, 1 on an L1 hit, 11 on an L1 miss that hits in L2
\* (L1 holds the line afterwards) and 111 on a miss in both (L1 and L2 hold
\* the line afterwards); a successful write returns 100 when disabled and
\* 111 otherwise; the cycles counter grows by the returned cost.
C25_AccessCost ==
    [][(call'.op \in {"read", "write"} /\ nops' = nops + 1 /\ ret'.ok)
          => LET a == Val(call'.arg)
                 cost == ret'.cycles
             IN  /\ memory'.cycles = memory.cycles + cost
                 /\ IF ~memory.cache_enabled THEN cost = 100
                    ELSE IF call'.op = "write" THEN cost = 111
                    ELSE IF repeated_fetch(memory, a, call'.fetch) THEN cost = 0
                    ELSE IF Holds(memory.L1_cache, a) THEN cost = 1
                    ELSE IF Holds(memory.L2_cache, a)
                    THEN cost = 11 /\ Holds(memory'.L1_cache, a)
                    ELSE /\ cost = 111
                         /\ Holds(memory'.L1_cache, a)
                         /\ Holds(memory'.L2_cache, a)]_vars

\* A read that missed in L1 and hit in L2 has returned.
C25_ReadServedByL2 ==
    /\ call.op = "read" /\ ret.ok /\ ret.cycles = 11
    /\ memory.cache_enabled
    /\ Holds(memory.L1_cache, Val(call.arg))

\* C26: flush_cache_line(a) leaves the valid bit and the tag of every L1 and
\* L2 line as they were, leaves every line covering a clean, and for a
\* covering line that was dirty the backing-store word of a is the line's
\* word for a.
C26_FlushWritesBack ==
    [][(/\ call'.op = "flush_cache_line" /\ nops' = nops + 1 /\ ret'.ok
        /\ memory.cache_enabled)
          => LET a == Val(call'.arg)
                 Kept(before, after) ==
                     \A i \in 0..(before.size - 1) :
                         LET l == Lookup(before.lines, i, CacheLine)
                             m == Lookup(after.lines, i, CacheLine)
                         IN  m.valid = l.valid /\ m.tag = l.tag
                 Flushed(before, after) ==
                     LET i == get_line_index(before, Py(a))
                         l == Lookup(before.lines, i, CacheLine)
                         m == Lookup(after.lines, i, CacheLine)
                     IN  Holds(before, a)
                           => /\ ~m.dirty
                              /\ l.dirty =>
                                   Lookup(memory'.memory, a \div 4, <<0, 0>>)
                                       = l.data[get_offset(before, Py(a)) + 1]
             IN  /\ Kept(memory.L1_cache, memory'.L1_cache)
                 /\ Kept(memory.L2_cache, memory'.L2_cache)
                 /\ Flushed(memory.L1_cache, memory'.L1_cache)
                 /\ Flushed(memory.L2_cache, memory'.L2_cache)]_vars

\* C27: with R2 = 5 and R3 = 3, ADD R1,R2,R3 ; ADD R4,R1,R5 runs pipelined
\* without an exception, and when the reader ADD R4,R1,R5 is in EXECUTE its
\* first operand is the producer's result 8, not the register file's R1.
C27_ReaderGetsProducerResult ==
    (phase = "run" /\ pipeline.enabled /\ program = ProgForward
        /\ regs0.registers[2] = Py(5) /\ regs0.registers[3] = Py(3))
    => /\ ~raised
       /\ pipeline.stages["EXECUTE"].instruction = Decode(ProgForward[2])
            => pipeline.stages["EXECUTE"].rs1 = Py(8)

C32_DivisionByZeroWritesZero ==
    (phase = "run" /\ pipeline.enabled /\ program = ProgDivZero)
    => /\ ~raised
       /\ registers.flags = regs0.flags
       /\ nsteps >= 5 => R(1) = Py(0)

\* C33: with the cache enabled, a data read(a) that is the second call made
\* on a fresh memory system returns the low 32 bits of what the first call
\* left in the word at a: the value of a write to a, the word of a loaded
\* program that lies at a, and otherwise 0.
C33_ReadReturnsLastWritten ==
    (/\ nops = 2 /\ call.op = "read" /\ ~call.fetch /\ ret.ok
     /\ memory.cache_enabled /\ prev.op # "toggle_cache")
        => LET i == Val(call.arg) \div 4
           IN  ret.data =
                 IF prev.op = "write" /\ prev.arg = call.arg
                 THEN Mask32(prev.value)
                 ELSE IF prev.op = "load_program" /\ i < Len(program)
                 THEN Mask32(program[i + 1])
                 ELSE Py(0)

\* C34: a program of a single decodable instruction, which flows through
\* the pipeline alone, never raises the stalled flag, in either mode.
C34_LoneInstructionNeverStalls ==
    (phase = "run" /\ Len(program) = 1 /\ Decodable(program))
        => ~pipeline.stalled

\* C35: in pipelined mode, with a program of decodable instructions, no
\* step() made while an instruction sits in a latch returns with the PC,
\* the latches, the counters, the registers and the memory all as they
\* were: the pipeline is never stuck with an unretired instruction.
C35_NoStuckInstruction ==
    [][(/\ nsteps' = nsteps + 1 /\ ~raised'
        /\ phase = "run" /\ pipeline.enabled /\ Decodable(program)
        /\ \E s \in DOMAIN pipeline.stages :
              pipeline.stages[s].instruction # None)
          => <<pipeline', registers', memory'>>
                 # <<pipeline, registers, memory>>]_vars

\* The machine of the present run as it was when the program was loaded,
\* switched to sequential mode.
SequentialTwin ==
    World(regs0,
          MemLoadProgram(MemorySystem(memory.cache_enabled), program),
          [Pipeline EXCEPT !.enabled = FALSE])

\* C36: when the pipelined run of a decodable program of N instructions has
\* retired them (N + 4 steps, no stall, no exception) and the sequential run
\* of the same program from the same registers has too (5N steps), the
\* general registers, the flags and the backing store of the two are equal.
C36_PipelinedEqualsSequential ==
    (/\ phase = "run" /\ pipeline.enabled /\ Decodable(program)
     /\ nsteps = Len(program) + 4 /\ ~raised /\ ~pipeline.stalled)
        => LET s == The({run(SequentialTwin, 5 * Len(program))})
           IN  (~s.raised /\ ~s.pipeline.stalled)
                 => /\ registers.registers = s.registers.registers
                    /\ registers.flags = s.registers.flags
                    /\ memory.memory = s.memory.memory

C38_RepeatedFetchSameWord ==
    [][(/\ memory.cache_enabled
        /\ call.op = "read" /\ call.fetch /\ ret.ok
        /\ call'.op = "read" /\ call'.fetch /\ call'.arg = call.arg
        /\ nops' = nops + 1)
          => ret'.ok /\ ret'.data = ret.data]_vars

\* C39: flush_cache_line(a) changes no backing-store word outside the line
\* that covers a (the aligned line_size words among which the word at byte
\* address a is), and the word a cache holds for a is written to the word
\* address of a.
C39_FlushStaysInLine ==
    [][(/\ call'.op = "flush_cache_line" /\ nops' = nops + 1 /\ ret'.ok
        /\ memory.cache_enabled)
          => LET a == Val(call'.arg)
                 Covered(cache, k) ==
                     k \div cache.line_size = (a \div 4) \div cache.line_size
                 Own(cache) ==
                     LET i == get_line_index(cache, Py(a))
                         l == Lookup(cache.lines, i, CacheLine)
                     IN  Holds(cache, a)
                           => Lookup(memory'.memory, a \div 4, <<0, 0>>)
                                 = l.data[get_offset(cache, Py(a)) + 1]
             IN  /\ \A k \in DOMAIN memory.memory \cup DOMAIN memory'.memory :
                        \/ Covered(memory.L1_cache, k)
                        \/ Covered(memory.L2_cache, k)
                        \/ Lookup(memory'.memory, k, <<0, 0>>)
                              = Lookup(memory.memory, k, <<0, 0>>)
                 /\ Own(memory.L1_cache)
                 /\ Own(memory.L2_cache)]_vars

\* C40: for a source made of immediate-form arithmetic lines, every line
\* whose immediate does not fit the signed 10-bit field is reported as an
\* error, and if assemble reports no error there is one word for each line
\* and it decodes to the immediate the line spells.
C40_ImmediateKeptOrReported ==
    LET source == app.first
        out == app.out
        immediate(i) == source[i].operands[Len(source[i].operands)].n
    IN  (/\ phase = "source" /\ app.fn = "assemble"
         /\ \A i \in DOMAIN source :
               /\ source[i].mnemonic \in {"ADDI", "SUBI"}
               /\ source[i].operands[Len(source[i].operands)].kind = "imm")
            => /\ \A i \in DOMAIN source :
                     (immediate(i) < -512 \/ immediate(i) > 511)
                         => \E j \in DOMAIN out.errors : out.errors[j] = i
               /\ out.errors = <<>>
                     => /\ Len(out.instructions) = Len(source)
                        /\ \A i \in DOMAIN source :
                              Decode(out.instructions[i]).imm
                                  = Py(immediate(i))

====
